---- MODULE Spec2Model ----
(***************************************************************************)
(* rupert (src/main.rs): a directory of mail-server log files is scanned,  *)
(* one parse task is spawned per non-directory entry, every task sends a   *)
(* RemoteAccess event per recognized access line over a bounded channel,   *)
(* and run() counts the events per address and reports the counts.        *)
(*                                                                         *)
(* Strings are TLA+ strings; split, join and the slice patterns of parse() *)
(* are computed on them character by character.                            *)
(***************************************************************************)
EXTENDS Integers, Sequences, FiniteSets, TLC

\* ------------------------------------------------------------------ bounds
\* Most entries the directory enumeration yields.
MaxEntries == 2
\* Most lines a file holds.
MaxLines == 4

\* ------------------------------------------------------- program constants
LOG_LINE_DELIM == "] "
REMOTE_ACCESS_PREFIX == "[LAN access from remote"
\* channel::bounded(4)
Capacity == 4
\* the report prints an address when value > 100
Threshold == 100

\* ----------------------------------------------------------- str::split
\* s.split(d) of Rust: the parts between the non-overlapping occurrences of d,
\* found left to right; a string without d gives the one part s.
RECURSIVE SplitAt(_, _, _, _)
SplitAt(s, d, i, start) ==
  IF i + Len(d) - 1 > Len(s)
    THEN <<SubSeq(s, start, Len(s))>>
    ELSE IF SubSeq(s, i, i + Len(d) - 1) = d
      THEN <<SubSeq(s, start, i - 1)>> \o SplitAt(s, d, i + Len(d), i + Len(d))
      ELSE SplitAt(s, d, i + 1, start)

Split(s, d) == SplitAt(s, d, 1, 1)

\* parts.join(d)
RECURSIVE Join(_, _)
Join(parts, d) ==
  IF Len(parts) = 0 THEN ""
  ELSE IF Len(parts) = 1 THEN parts[1]
  ELSE parts[1] \o d \o Join(Tail(parts), d)

\* ------------------------------------------------------------------ inputs
\* A line of the recognized shape for a peer token.
AccessLine(peer) ==
  REMOTE_ACCESS_PREFIX \o LOG_LINE_DELIM \o "from " \o peer
    \o " to me Mon Jan 1 00:00:00"

\* The lines a file of the directory may hold: the empty line, two access
\* lines (peer with and without a port) and an access line that lacks "to".
\* Before the first empty line the last three are header lines without
\* ": "; after it, an empty line is a peripheral line.
FileLines ==
  { "",
    AccessLine("10.0.0.5:4444"), AccessLine("10.0.0.9"),
    REMOTE_ACCESS_PREFIX \o LOG_LINE_DELIM \o "from 10.0.0.5:4444 me Mon Jan 1 00:00:00" }

\* ------------------------------------------------------------- EmailHead
\* EmailHead::default()
EmailHeadDefault == [headers |-> <<>>, done |-> FALSE]

\* HashMap::insert
MapInsert(m, k, v) == [x \in DOMAIN m \cup {k} |-> IF x = k THEN v ELSE m[x]]

\* parts.next().zip(parts.next()).unwrap_or_else(|| ("", ""))
HeaderPair(item) ==
  LET parts == Split(item, ": ")
  IN IF Len(parts) >= 2 THEN <<parts[1], parts[2]>> ELSE <<"", "">>

\* HeaderPair of the file lines, computed once.
LinePair == [l \in FileLines |-> HeaderPair(l)]
PairOf(item) == IF item \in FileLines THEN LinePair[item] ELSE HeaderPair(item)

\* push that closes the header at the empty line but hands the line back.
PushBlankBack(head, item) ==
  IF head.done = TRUE
    THEN [head |-> head, ret |-> FALSE]
    ELSE IF Len(item) = 0
      THEN [head |-> [head EXCEPT !.done = TRUE], ret |-> FALSE]
      ELSE LET kv == PairOf(item)
           IN [head |-> [head EXCEPT !.headers = MapInsert(@, kv[1], kv[2])],
               ret |-> TRUE]

\* push that refuses a line without ": " and hands it back as a body line.
PushRejectsMalformed(head, item) ==
  IF head.done = TRUE
    THEN [head |-> head, ret |-> FALSE]
    ELSE IF Len(item) = 0
      THEN [head |-> [head EXCEPT !.done = TRUE], ret |-> TRUE]
      ELSE IF Len(Split(item, ": ")) < 2
        THEN [head |-> head, ret |-> FALSE]
        ELSE LET kv == PairOf(item)
             IN [head |-> [head EXCEPT !.headers = MapInsert(@, kv[1], kv[2])],
                 ret |-> TRUE]

\* push that still stores a header once the header is closed.
PushKeepsInserting(head, item) ==
  IF Len(item) = 0
    THEN [head |-> [head EXCEPT !.done = TRUE], ret |-> ~head.done]
    ELSE LET kv == PairOf(item)
         IN [head |-> [head EXCEPT !.headers = MapInsert(@, kv[1], kv[2])],
             ret |-> ~head.done]

\* EmailHead::push: the head after the call and the value returned.
Push(head, item) ==
  IF head.done = TRUE
    THEN [head |-> head, ret |-> FALSE]
    ELSE IF Len(item) = 0
      THEN [head |-> [head EXCEPT !.done = TRUE], ret |-> TRUE]
      ELSE LET kv == PairOf(item)
           IN [head |-> [head EXCEPT !.headers = MapInsert(@, kv[1], kv[2])],
               ret |-> TRUE]

\* ---------------------------------------------------- the match of parse()
\* The address taken after the last ":" instead of before the first.
PeerAddressLast(peer) ==
  LET bits == Split(peer, ":")
  IN IF Len(bits) >= 1 THEN bits[Len(bits)] ELSE "unknown"

\* peer.split(":").next().unwrap_or("unknown")
PeerAddress(peer) ==
  LET bits == Split(peer, ":")
  IN IF Len(bits) >= 1 THEN bits[1] ELSE "unknown"

\* The pattern without its "to": ["from", peer, _, _mine, ...]
IsAccessShapeNoTo(tokens) ==
  /\ Len(tokens) = 8
  /\ tokens[1] = "from"

\* ["from", peer, "to", _mine, _day, _mon, _date, _time]
IsAccessShape(tokens) ==
  /\ Len(tokens) = 8
  /\ tokens[1] = "from"
  /\ tokens[3] = "to"

\* The match on a body line: which arm is taken, and what it produces.
Classify(line) ==
  LET parts == Split(line, LOG_LINE_DELIM)
  IN IF Len(parts) = 2 /\ parts[1] = REMOTE_ACCESS_PREFIX
       THEN LET tokens == Split(parts[2], " ")
            IN IF IsAccessShape(tokens)
                 THEN [arm |-> "event", address |-> PeerAddress(tokens[2]),
                       text |-> ""]
                 ELSE [arm |-> "unrecognized", address |-> "",
                       text |-> Join(tokens, "|")]
       ELSE [arm |-> "peripheral", address |-> "",
             text |-> Join(parts, LOG_LINE_DELIM)]

\* ------------------------------------------------- the channel (async_std)
\* send on an unbounded channel: there is always room.
SendResultUnbounded(ch, receiverOpen) ==
  IF ~receiverOpen THEN "closed" ELSE "sent"

\* Sender::send on the bounded channel: it fails once the receiver is gone,
\* completes while there is room, and otherwise suspends the caller.
SendResult(ch, receiverOpen) ==
  IF ~receiverOpen THEN "closed"
  ELSE IF Len(ch) < Capacity THEN "sent"
  ELSE "pending"

\* recv as try_recv would do it: Err as soon as the channel is empty.
RecvResultEmpty(ch, nSenders) ==
  IF Len(ch) > 0 THEN "item" ELSE "closed"

\* Receiver::recv: a buffered item first; Err only when the channel is empty
\* and every sender has been dropped; otherwise the caller is suspended.
RecvResult(ch, nSenders) ==
  IF Len(ch) > 0 THEN "item"
  ELSE IF nSenders = 0 THEN "closed"
  ELSE "pending"

\* ------------------------------------------------------------ aggregation
\* mappings.remove(&address).unwrap_or(0u32)
Existing(m, a) == IF a \in DOMAIN m THEN m[a] ELSE 0

\* Tally without the removed count: every event stores 1.
TallyReset(m, a) == MapInsert(m, a, 1)

\* let existing = mappings.remove(..).unwrap_or(0); mappings.insert(.., existing + 1)
\* (a u32; a run of at most MaxEntries * MaxLines events stays far below 2^32)
Tally(m, a) == MapInsert(m, a, Existing(m, a) + 1)

\* The printed addresses with `value >= 100` as the test.
PrintedSetAtLeast(m) == {a \in DOMAIN m : m[a] >= Threshold}

\* for (key, value) in mappings: value > 100 is printed, else hidden += 1
PrintedSet(m) == {a \in DOMAIN m : m[a] > Threshold}
HiddenCount(m) == Cardinality({a \in DOMAIN m : ~(m[a] > Threshold)})

\* Classify of the file lines, computed once.
LineClass == [l \in FileLines |-> Classify(l)]

\* The addresses the lines of FileLines can produce.
Addresses ==
  {LineClass[l].address : l \in {x \in FileLines : LineClass[x].arm = "event"}}

\* What the directory enumeration yields for one entry: Ok(entry) of a file,
\* Ok(entry) of a directory, or Err.
EntryKinds == {"file", "dir", "err"}
Listings == UNION {[1..n -> EntryKinds] : n \in 0..MaxEntries}

\* One task slot per position of the enumeration.
Tasks == 1..MaxEntries

VARIABLES
  inputDir,    \* options.input_dir.value: "none", "notdir" or "dir"
  listing,     \* what dir.read_dir() yields, in order
  runPc,       \* where run() is: start, scan, recv, report, done, error
  result,      \* what run() returned: "none", "Ok", "Err"
  scanned,     \* entries taken from the enumeration so far
  sender,      \* run()'s own Sender: "none", "held", "dropped"
  receiver,    \* run()'s Receiver: "none", "open", "dropped"
  chan,        \* the events buffered in the channel, oldest first
  mappings,    \* address -> count
  hidden,      \* hidden of the report
  total,       \* total of the report
  printed,     \* the addresses the report printed
  status,      \* per task: none, spawned, reading, sending, ok, io_error, send_error
  head,        \* per task: its EmailHead
  lineNo,      \* per task: lines read so far
  pending,     \* per task: the address of the event being sent
  peripheral,  \* per task: the peripheral buffer
  spawns,      \* history: tasks spawned per enumeration position
  emitted,     \* history: per address, recognized access lines reached
  received,    \* history: per address, events taken by recv
  openFailed,  \* history: per task, File::open returned Err
  readFailed,  \* history: per task, lines.next() returned Some(Err)
  blankAt,     \* history: per task, the number of its first empty line, or 0
  last,        \* history: per task, how the line read last was handled
  inLine,      \* the classifier on its own: the line
  outcome,     \* the classifier on its own: what the match produced
  files,       \* per task: the lines of its file when they are fixed beforehand
  hd,          \* EmailHead on its own: the head
  pushed,      \* EmailHead on its own: the lines pushed so far
  rets         \* EmailHead on its own: what each push returned

vars ==
  << inputDir, listing, runPc, result, scanned, sender, receiver, chan, mappings,
     hidden, total, printed, status, head, lineNo, pending, peripheral, spawns,
     emitted, received, openFailed, readFailed, blankAt, last, inLine, outcome,
     files, hd, pushed, rets >>

runVars == << inputDir, listing, runPc, result, scanned, sender, receiver,
              mappings, hidden, total, printed, spawns, received >>
taskVars == << status, head, lineNo, pending, peripheral, emitted, openFailed,
               readFailed, blankAt, last >>
pushVars == << hd, pushed, rets >>
lineVars == << inLine, outcome, files, pushVars >>

\* A task owns a clone of the Sender from its spawn until parse() returns.
HoldsSender(p) == status[p] \in {"spawned", "reading", "sending"}

\* Senders alive: run()'s own and the clones of the tasks.
Senders ==
  (IF sender = "held" THEN 1 ELSE 0) + Cardinality({p \in Tasks : HoldsSender(p)})

\* A file whose lines are whatever the reads turn out to give.
AnyFile == [fixed |-> FALSE, lines |-> <<>>]

\* A file with the lines given.
FileOf(ls) == [fixed |-> TRUE, lines |-> ls]

\* `outcome` before the match has run.
NoOutcome == [arm |-> "none", events |-> <<>>]

\* `last` of a task that has read no line.
NoLine == [doneBefore |-> FALSE, ret |-> TRUE, body |-> FALSE]

\* -------------------------------------------------------------------- Init
\* The state before run() is called: no channel, no task, an empty table.
PipelineStart ==
  /\ runPc = "start"
  /\ result = "none"
  /\ scanned = 0
  /\ sender = "none"
  /\ receiver = "none"
  /\ chan = <<>>
  /\ mappings = <<>>
  /\ hidden = 0
  /\ total = 0
  /\ printed = {}
  /\ status = [p \in Tasks |-> "none"]
  /\ head = [p \in Tasks |-> EmailHeadDefault]
  /\ lineNo = [p \in Tasks |-> 0]
  /\ pending = [p \in Tasks |-> ""]
  /\ peripheral = [p \in Tasks |-> <<>>]
  /\ spawns = [p \in Tasks |-> 0]
  /\ emitted = [a \in Addresses |-> 0]
  /\ received = [a \in Addresses |-> 0]
  /\ openFailed = [p \in Tasks |-> FALSE]
  /\ readFailed = [p \in Tasks |-> FALSE]
  /\ blankAt = [p \in Tasks |-> 0]
  /\ last = [p \in Tasks |-> NoLine]
  /\ hd = EmailHeadDefault
  /\ pushed = <<>>
  /\ rets = <<>>

Init ==
  /\ inputDir \in {"none", "notdir", "dir"}
  /\ listing \in (IF inputDir = "dir" THEN Listings ELSE {<<>>})
  /\ PipelineStart
  /\ files = [p \in Tasks |-> AnyFile]
  /\ inLine = ""
  /\ outcome = NoOutcome

\* ------------------------------------------------------------------- run()
\* Lines 100-113: the input directory option is missing or is no directory.
ConfigError ==
  /\ runPc = "start"
  /\ inputDir # "dir"
  /\ runPc' = "error"
  /\ result' = "Err"
  /\ UNCHANGED << inputDir, listing, scanned, sender, receiver, mappings, hidden,
                  total, printed, spawns, received >>
  /\ UNCHANGED << chan, taskVars, lineVars >>

\* StartScan without the test of the input directory.
StartScanUnchecked ==
  /\ runPc = "start"
  /\ sender' = "held"
  /\ receiver' = "open"
  /\ runPc' = "scan"
  /\ UNCHANGED << inputDir, listing, result, scanned, mappings, hidden, total,
                  printed, spawns, received >>
  /\ UNCHANGED << chan, taskVars, lineVars >>

\* Lines 100-120 with a directory: the table and the channel are created and
\* read_dir succeeds.
StartScan ==
  /\ runPc = "start"
  /\ inputDir = "dir"
  /\ sender' = "held"
  /\ receiver' = "open"
  /\ runPc' = "scan"
  /\ UNCHANGED << inputDir, listing, result, scanned, mappings, hidden, total,
                  printed, spawns, received >>
  /\ UNCHANGED << chan, taskVars, lineVars >>

\* Lines 100-118 with a directory that read_dir cannot read: `?` returns the
\* error, which drops both ends of the channel just created.
ReadDirError ==
  /\ runPc = "start"
  /\ inputDir = "dir"
  /\ sender' = "dropped"
  /\ receiver' = "dropped"
  /\ runPc' = "error"
  /\ result' = "Err"
  /\ UNCHANGED << inputDir, listing, scanned, mappings, hidden, total, printed,
                  spawns, received >>
  /\ UNCHANGED << chan, taskVars, lineVars >>

\* Lines 122-131, one turn of the loop on Some(Ok(entry)): a directory is
\* skipped, anything else gets a parse task with a clone of the sender.
ScanEntry ==
  /\ runPc = "scan"
  /\ scanned < Len(listing)
  /\ listing[scanned + 1] # "err"
  /\ scanned' = scanned + 1
  /\ IF listing[scanned + 1] = "dir"
       THEN UNCHANGED << status, spawns >>
       ELSE /\ status' = [status EXCEPT ![scanned + 1] = "spawned"]
            /\ spawns' = [spawns EXCEPT ![scanned + 1] = @ + 1]
  /\ UNCHANGED << inputDir, listing, runPc, result, sender, receiver, mappings,
                  hidden, total, printed, received >>
  /\ UNCHANGED << chan, head, lineNo, pending, peripheral, emitted, openFailed,
                  readFailed, blankAt, last, lineVars >>

\* ScanEnd without line 134: run() keeps its own sender.
ScanEndKeepsSender ==
  /\ runPc = "scan"
  /\ \/ scanned = Len(listing)
     \/ /\ scanned < Len(listing)
        /\ listing[scanned + 1] = "err"
  /\ runPc' = "recv"
  /\ UNCHANGED << inputDir, listing, result, scanned, sender, receiver, mappings,
                  hidden, total, printed, spawns, received >>
  /\ UNCHANGED << chan, taskVars, lineVars >>

\* Lines 122 and 134: entries.next() gives None or Some(Err(_)), either of
\* which ends the `while let`; run() then drops its own sender.
ScanEnd ==
  /\ runPc = "scan"
  /\ \/ scanned = Len(listing)
     \/ /\ scanned < Len(listing)
        /\ listing[scanned + 1] = "err"
  /\ sender' = "dropped"
  /\ runPc' = "recv"
  /\ UNCHANGED << inputDir, listing, result, scanned, receiver, mappings, hidden,
                  total, printed, spawns, received >>
  /\ UNCHANGED << chan, taskVars, lineVars >>

\* Lines 136-140: recv() gives Ok(next) and the count of its address goes up.
Recv ==
  /\ runPc = "recv"
  /\ RecvResult(chan, Senders) = "item"
  /\ mappings' = Tally(mappings, Head(chan))
  /\ received' = [received EXCEPT ![Head(chan)] = @ + 1]
  /\ chan' = Tail(chan)
  /\ UNCHANGED << inputDir, listing, runPc, result, scanned, sender, receiver,
                  hidden, total, printed, spawns >>
  /\ UNCHANGED << taskVars, lineVars >>

\* A receive loop that ends as soon as it finds the channel empty.
RecvClosedOnEmpty ==
  /\ runPc = "recv"
  /\ chan = <<>>
  /\ runPc' = "report"
  /\ UNCHANGED << inputDir, listing, result, scanned, sender, receiver, mappings,
                  hidden, total, printed, spawns, received >>
  /\ UNCHANGED << chan, taskVars, lineVars >>

\* Lines 136 and 142: recv() gives Err and the loop ends.
RecvClosed ==
  /\ runPc = "recv"
  /\ RecvResult(chan, Senders) = "closed"
  /\ runPc' = "report"
  /\ UNCHANGED << inputDir, listing, result, scanned, sender, receiver, mappings,
                  hidden, total, printed, spawns, received >>
  /\ UNCHANGED << chan, taskVars, lineVars >>

\* Lines 144-157: the report, then Ok(()); the receiver goes out of scope.
Report ==
  /\ runPc = "report"
  /\ total' = Cardinality(DOMAIN mappings)
  /\ hidden' = HiddenCount(mappings)
  /\ printed' = PrintedSet(mappings)
  /\ receiver' = "dropped"
  /\ result' = "Ok"
  /\ runPc' = "done"
  /\ UNCHANGED << inputDir, listing, scanned, sender, mappings, spawns, received >>
  /\ UNCHANGED << chan, taskVars, lineVars >>

\* ----------------------------------------------------------------- parse()
\* Line 66: File::open succeeds; the reader, the head and the buffer are set up.
OpenOk(p) ==
  /\ status[p] = "spawned"
  /\ status' = [status EXCEPT ![p] = "reading"]
  /\ UNCHANGED << head, lineNo, pending, peripheral, emitted, openFailed,
                  readFailed, blankAt, last >>
  /\ UNCHANGED << chan, runVars, lineVars >>

\* OpenErr with the failure taken as fatal for the run: the receiver is closed.
OpenErrAborts(p) ==
  /\ status[p] = "spawned"
  /\ status' = [status EXCEPT ![p] = "io_error"]
  /\ openFailed' = [openFailed EXCEPT ![p] = TRUE]
  /\ receiver' = "dropped"
  /\ UNCHANGED << head, lineNo, pending, peripheral, emitted, readFailed, blankAt,
                  last >>
  /\ UNCHANGED << inputDir, listing, runPc, result, scanned, sender, mappings,
                  hidden, total, printed, spawns, received >>
  /\ UNCHANGED << chan, lineVars >>

\* Line 66: File::open fails and `?` returns the error; the task ends and its
\* sender clone is dropped with it.
OpenErr(p) ==
  /\ status[p] = "spawned"
  /\ status' = [status EXCEPT ![p] = "io_error"]
  /\ openFailed' = [openFailed EXCEPT ![p] = TRUE]
  /\ UNCHANGED << head, lineNo, pending, peripheral, emitted, readFailed, blankAt, last >>
  /\ UNCHANGED << chan, runVars, lineVars >>

\* The events the match sends for a body line: one on the "event" arm.
BodyEvents(c) == IF c.arm = "event" THEN <<c.address>> ELSE <<>>

\* ParseLine with an unrecognized access line taken as an error that ends
\* the task.
ParseLineBadEnds(p, line) ==
  LET r == Push(head[p], line)
      c == LineClass[line]
  IN /\ head' = [head EXCEPT ![p] = r.head]
     /\ lineNo' = [lineNo EXCEPT ![p] = @ + 1]
     /\ blankAt' = [blankAt EXCEPT ![p] =
                      IF @ = 0 /\ line = "" THEN lineNo[p] + 1 ELSE @]
     /\ last' = [last EXCEPT ![p] =
                   [doneBefore |-> head[p].done, ret |-> r.ret, body |-> ~r.ret]]
     /\ IF r.ret
          THEN UNCHANGED << status, pending, peripheral, emitted >>
          ELSE IF BodyEvents(c) # <<>>
            THEN /\ status' = [status EXCEPT ![p] = "sending"]
                 /\ pending' = [pending EXCEPT ![p] = BodyEvents(c)[1]]
                 /\ emitted' = [emitted EXCEPT ![BodyEvents(c)[1]] = @ + 1]
                 /\ UNCHANGED peripheral
            ELSE /\ peripheral' = [peripheral EXCEPT ![p] =
                       IF c.arm = "peripheral" THEN Append(@, c.text) ELSE @]
                 /\ status' = [status EXCEPT ![p] =
                       IF c.arm = "unrecognized" THEN "io_error" ELSE @]
                 /\ UNCHANGED << pending, emitted >>

\* Lines 73-93 for one line that was read: push, then `continue` or the match.
\* An event is handed to send(), where the task waits; a peripheral line is
\* kept in the buffer; an unrecognized access line is only printed.
ParseLine(p, line) ==
  LET r == Push(head[p], line)
      c == LineClass[line]
  IN /\ head' = [head EXCEPT ![p] = r.head]
     /\ lineNo' = [lineNo EXCEPT ![p] = @ + 1]
     /\ blankAt' = [blankAt EXCEPT ![p] =
                      IF @ = 0 /\ line = "" THEN lineNo[p] + 1 ELSE @]
     /\ last' = [last EXCEPT ![p] =
                   [doneBefore |-> head[p].done, ret |-> r.ret, body |-> ~r.ret]]
     /\ IF r.ret
          THEN UNCHANGED << status, pending, peripheral, emitted >>
          ELSE IF BodyEvents(c) # <<>>
            THEN /\ status' = [status EXCEPT ![p] = "sending"]
                 /\ pending' = [pending EXCEPT ![p] = BodyEvents(c)[1]]
                 /\ emitted' = [emitted EXCEPT ![BodyEvents(c)[1]] = @ + 1]
                 /\ UNCHANGED peripheral
            ELSE /\ peripheral' = [peripheral EXCEPT ![p] =
                       IF c.arm = "peripheral" THEN Append(@, c.text) ELSE @]
                 /\ UNCHANGED << status, pending, emitted >>

\* What lines.next() can give as the next line of the file of p.
NextLines(p) ==
  IF files[p].fixed
    THEN IF lineNo[p] < Len(files[p].lines)
           THEN {files[p].lines[lineNo[p] + 1]} ELSE {}
    ELSE IF lineNo[p] < MaxLines THEN FileLines ELSE {}

\* Whether the file of p can be at its end.
AtEof(p) == files[p].fixed => lineNo[p] = Len(files[p].lines)

\* Line 73: lines.next() gives Some(Ok(line)).
ReadLine(p) ==
  /\ status[p] = "reading"
  /\ \E line \in NextLines(p) : ParseLine(p, line)
  /\ UNCHANGED << openFailed, readFailed >>
  /\ UNCHANGED << chan, runVars, lineVars >>

\* Lines 73 and 96: lines.next() gives None; the loop ends and parse() is Ok(()).
ReadEof(p) ==
  /\ status[p] = "reading"
  /\ AtEof(p)
  /\ status' = [status EXCEPT ![p] = "ok"]
  /\ UNCHANGED << head, lineNo, pending, peripheral, emitted, openFailed,
                  readFailed, blankAt, last >>
  /\ UNCHANGED << chan, runVars, lineVars >>

\* Lines 73 and 96: lines.next() gives Some(Err(_)), which does not match
\* Some(Ok(line)) either; the loop ends and parse() is Ok(()).
ReadErr(p) ==
  /\ status[p] = "reading"
  /\ readFailed' = [readFailed EXCEPT ![p] = TRUE]
  /\ status' = [status EXCEPT ![p] = "ok"]
  /\ UNCHANGED << head, lineNo, pending, peripheral, emitted, openFailed, blankAt, last >>
  /\ UNCHANGED << chan, runVars, lineVars >>

\* Send as try_send would do it: an event that finds the channel full is
\* dropped and the loop goes on.
SendDrop(p) ==
  /\ status[p] = "sending"
  /\ chan' = IF SendResult(chan, receiver = "open") = "sent"
               THEN Append(chan, pending[p]) ELSE chan
  /\ status' = [status EXCEPT ![p] = "reading"]
  /\ pending' = [pending EXCEPT ![p] = ""]
  /\ UNCHANGED << head, lineNo, peripheral, emitted, openFailed, readFailed,
                  blankAt, last >>
  /\ UNCHANGED << runVars, lineVars >>

\* Send with the failure ignored: the loop goes on with the next line.
SendIgnoresFailure(p) ==
  /\ status[p] = "sending"
  /\ SendResult(chan, receiver = "open") # "pending"
  /\ chan' = IF SendResult(chan, receiver = "open") = "sent"
               THEN Append(chan, pending[p]) ELSE chan
  /\ status' = [status EXCEPT ![p] = "reading"]
  /\ pending' = [pending EXCEPT ![p] = ""]
  /\ UNCHANGED << head, lineNo, peripheral, emitted, openFailed, readFailed, blankAt, last >>
  /\ UNCHANGED << runVars, lineVars >>

\* Lines 84-87: send() completes and the loop goes on, or it fails, the
\* warning is printed and `?` returns Err(Other).
Send(p) ==
  /\ status[p] = "sending"
  /\ SendResult(chan, receiver = "open") # "pending"
  /\ IF SendResult(chan, receiver = "open") = "sent"
       THEN /\ chan' = Append(chan, pending[p])
            /\ status' = [status EXCEPT ![p] = "reading"]
       ELSE /\ chan' = chan
            /\ status' = [status EXCEPT ![p] = "send_error"]
  /\ pending' = [pending EXCEPT ![p] = ""]
  /\ UNCHANGED << head, lineNo, peripheral, emitted, openFailed, readFailed, blankAt, last >>
  /\ UNCHANGED << runVars, lineVars >>

\* ------------------------------------------------------------------- Next
RunNext ==
  \/ ConfigError
  \/ StartScan
  \/ ReadDirError
  \/ ScanEntry
  \/ ScanEnd
  \/ Recv
  \/ RecvClosed
  \/ Report

TaskNext(p) ==
  \/ OpenOk(p)
  \/ OpenErr(p)
  \/ ReadLine(p)
  \/ ReadEof(p)
  \/ ReadErr(p)
  \/ Send(p)

Next == RunNext \/ \E p \in Tasks : TaskNext(p)

Spec == Init /\ [][Next]_vars

\* The executor runs every spawned task and run() itself: a step that stays
\* possible is taken.
FairSpec == Spec /\ WF_vars(RunNext) /\ \A p \in Tasks : WF_vars(TaskNext(p))

\* ------------------------------------------- the match of parse() on its own
\* Lines for the match: a first part, a delimiter, and a descriptor of tokens
\* joined by single spaces, with or without a further "] " part.
FirstParts ==
  {REMOTE_ACCESS_PREFIX, "[WAN access from remote", REMOTE_ACCESS_PREFIX \o "]"}
Delims == {"] ", "]", " "}
Froms == {"from", "From"}
Peers == {"10.0.0.5:4444", "10.0.0.9", "", ":80", "a:b:c", "x]"}
Tos == {"to", "at"}
Tails ==
  { <<"me", "Mon", "Jan", "1">>,
    <<"me", "Mon", "Jan", "1", "00:00:00">>,
    <<"", "", "", "", "">>,
    <<"to", "from", "to", "from", "to">>,
    <<"me]", "Mon", "Jan", "1", "00:00:00">>,
    <<"me", "Mon", "Jan", "1", "00:00:00", "x">> }
Endings == {"", "] x"}

ClassifierLines ==
  { f \o d \o Join(<<fr, pe, to>> \o tl, " ") \o e :
      f \in FirstParts, d \in Delims, fr \in Froms, pe \in Peers, to \in Tos,
      tl \in Tails, e \in Endings }

LineInit ==
  /\ inputDir = "none"
  /\ listing = <<>>
  /\ PipelineStart
  /\ files = [p \in Tasks |-> AnyFile]
  /\ inLine \in ClassifierLines
  /\ outcome = NoOutcome

\* Lines 78-93 for the body line inLine: the arm taken and the events sent.
ClassifyLine ==
  /\ outcome.arm = "none"
  /\ outcome' = [arm |-> Classify(inLine).arm,
                 events |-> BodyEvents(Classify(inLine))]
  /\ UNCHANGED << inLine, files, pushVars, chan, runVars, taskVars >>

LineNext == ClassifyLine

LineSpec == LineInit /\ [][LineNext]_vars

\* ------------------------------------------------- a directory fixed beforehand
\* Files with fixed lines: events of both addresses after the empty line, a
\* malformed access line between two recognized ones, access lines without
\* any empty line, an access line in the header, and the empty file.
FixedFiles ==
  { FileOf(<<"", AccessLine("10.0.0.5:4444"), AccessLine("10.0.0.9"),
             AccessLine("10.0.0.5:4444")>>),
    FileOf(<<"", AccessLine("10.0.0.9"),
             REMOTE_ACCESS_PREFIX \o LOG_LINE_DELIM
               \o "from 10.0.0.5:4444 me Mon Jan 1 00:00:00",
             AccessLine("10.0.0.9")>>),
    FileOf(<<AccessLine("10.0.0.5:4444"), AccessLine("10.0.0.9")>>),
    FileOf(<<AccessLine("10.0.0.9"), "", AccessLine("10.0.0.5:4444"),
             AccessLine("10.0.0.5:4444")>>),
    FileOf(<<>>) }

\* A readable directory whose files can all be opened and read: the
\* enumeration and the lines of every file are fixed before run() starts.
FixedInit ==
  /\ inputDir = "dir"
  /\ listing \in Listings
  /\ PipelineStart
  /\ files \in {f \in [Tasks -> FixedFiles] :
                  \A p \in Tasks :
                    (p > Len(listing) \/ listing[p] # "file") => f[p] = FileOf(<<>>)}
  /\ inLine = ""
  /\ outcome = NoOutcome

FixedNext ==
  \/ StartScan
  \/ ScanEntry
  \/ ScanEnd
  \/ Recv
  \/ RecvClosed
  \/ Report
  \/ \E p \in Tasks : OpenOk(p) \/ ReadLine(p) \/ ReadEof(p) \/ Send(p)

FixedSpec == FixedInit /\ [][FixedNext]_vars

\* ------------------------------------------------------ the report on its own
\* Counts on both sides of the threshold, and a small one.
ReportCounts == {1} \cup ((Threshold - 2)..(Threshold + 3))

\* The tables the receive loop can leave: any addresses, any counts.
ReportTables == UNION {[S -> ReportCounts] : S \in SUBSET Addresses}

\* run() at line 142: the scan is over, the one task has ended, every event
\* has been received and the loop has ended. The files behind such counts
\* are longer than MaxLines, so the task's line counter is not carried.
ReportInit ==
  /\ inputDir = "dir"
  /\ listing = <<"file">>
  /\ runPc = "report"
  /\ result = "none"
  /\ scanned = 1
  /\ sender = "dropped"
  /\ receiver = "open"
  /\ chan = <<>>
  /\ mappings \in ReportTables
  /\ hidden = 0
  /\ total = 0
  /\ printed = {}
  /\ status = [p \in Tasks |-> IF p = 1 THEN "ok" ELSE "none"]
  /\ head = [p \in Tasks |-> EmailHeadDefault]
  /\ lineNo = [p \in Tasks |-> 0]
  /\ pending = [p \in Tasks |-> ""]
  /\ peripheral = [p \in Tasks |-> <<>>]
  /\ spawns = [p \in Tasks |-> IF p = 1 THEN 1 ELSE 0]
  /\ emitted = [a \in Addresses |-> Existing(mappings, a)]
  /\ received = [a \in Addresses |-> Existing(mappings, a)]
  /\ openFailed = [p \in Tasks |-> FALSE]
  /\ readFailed = [p \in Tasks |-> FALSE]
  /\ blankAt = [p \in Tasks |-> 0]
  /\ last = [p \in Tasks |-> NoLine]
  /\ hd = EmailHeadDefault
  /\ pushed = <<>>
  /\ rets = <<>>
  /\ files = [p \in Tasks |-> AnyFile]
  /\ inLine = ""
  /\ outcome = NoOutcome

ReportNext == Report

ReportSpec == ReportInit /\ [][ReportNext]_vars

\* ------------------------------------------------------- parse() on its own
\* parse() called with a sender whose receiver the caller may have dropped
\* already: every task has been spawned on a file, run()'s own sender is
\* gone, and nothing receives.
ParseInit ==
  /\ inputDir = "dir"
  /\ listing = [p \in Tasks |-> "file"]
  /\ runPc = "recv"
  /\ result = "none"
  /\ scanned = Len(listing)
  /\ sender = "dropped"
  /\ receiver \in {"open", "dropped"}
  /\ chan = <<>>
  /\ mappings = <<>>
  /\ hidden = 0
  /\ total = 0
  /\ printed = {}
  /\ status = [p \in Tasks |-> "spawned"]
  /\ head = [p \in Tasks |-> EmailHeadDefault]
  /\ lineNo = [p \in Tasks |-> 0]
  /\ pending = [p \in Tasks |-> ""]
  /\ peripheral = [p \in Tasks |-> <<>>]
  /\ spawns = [p \in Tasks |-> 1]
  /\ emitted = [a \in Addresses |-> 0]
  /\ received = [a \in Addresses |-> 0]
  /\ openFailed = [p \in Tasks |-> FALSE]
  /\ readFailed = [p \in Tasks |-> FALSE]
  /\ blankAt = [p \in Tasks |-> 0]
  /\ last = [p \in Tasks |-> NoLine]
  /\ hd = EmailHeadDefault
  /\ pushed = <<>>
  /\ rets = <<>>
  /\ files = [p \in Tasks |-> AnyFile]
  /\ inLine = ""
  /\ outcome = NoOutcome

ParseNext == \E p \in Tasks : TaskNext(p)

ParseSpec == ParseInit /\ [][ParseNext]_vars

\* ------------------------------------------------------ EmailHead on its own
\* Lines to push: the empty line, two lines with the same key, a line with
\* two ": ", and a line without ": ".
HeaderLines == {"", "Subject: x", "Subject: y", "To: a: b", "nodelim"}

PushInit ==
  /\ inputDir = "none"
  /\ listing = <<>>
  /\ PipelineStart
  /\ files = [p \in Tasks |-> AnyFile]
  /\ inLine = ""
  /\ outcome = NoOutcome

\* One call of push on the head, as line 74 makes it for each line read.
PushLine ==
  /\ Len(pushed) < MaxLines
  /\ \E l \in HeaderLines :
       /\ hd' = Push(hd, l).head
       /\ rets' = Append(rets, Push(hd, l).ret)
       /\ pushed' = Append(pushed, l)
  /\ UNCHANGED << inLine, outcome, files, chan, runVars, taskVars >>

PushNext == PushLine

PushSpec == PushInit /\ [][PushNext]_vars

\* ------------------------------------------------------------------ claims
\* The count the table holds for an address; no entry reads as 0.
CountFor(a) == IF a \in DOMAIN mappings THEN mappings[a] ELSE 0

\* The tasks that were spawned and have ended.
Ended(p) == status[p] \in {"ok", "io_error", "send_error"}

RECURSIVE SumOver(_, _)
SumOver(f, S) ==
  IF S = {} THEN 0
  ELSE LET x == CHOOSE y \in S : TRUE IN f[x] + SumOver(f, S \ {x})

\* C1: once run() has left its receive loop, the table holds for every address
\* exactly the number of recognized access lines the tasks reached, and no
\* event is left in the channel.
C1_CountsEqualSent ==
  runPc \in {"report", "done"} =>
    /\ chan = <<>>
    /\ \A p \in Tasks : status[p] # "sending"
    /\ DOMAIN mappings \subseteq Addresses
    /\ \A a \in Addresses : CountFor(a) = emitted[a]

\* C1 witness: a finished run that counted three events for each of the two
\* addresses, more than the channel holds.
C1_Witness ==
  /\ runPc = "done"
  /\ \A a \in Addresses : CountFor(a) = 3 /\ emitted[a] = 3

\* C2: at every state the table holds for every address the number of events
\* received for it so far, and an address without a received event has no
\* entry (no entry holds 0).
C2_CountsEqualReceived ==
  /\ DOMAIN mappings \subseteq Addresses
  /\ \A a \in Addresses : CountFor(a) = received[a]
  /\ \A a \in DOMAIN mappings : mappings[a] >= 1

\* C2 witness: in the loop, one address was counted twice, another not at all,
\* and an event is still to be received.
C2_Witness ==
  /\ runPc = "recv"
  /\ chan # <<>>
  /\ \E a, b \in Addresses :
       /\ a \in DOMAIN mappings /\ mappings[a] = 2 /\ received[a] = 2
       /\ b \notin DOMAIN mappings /\ received[b] = 0

\* C3: under fair scheduling every run comes to its end, with every spawned
\* task ended: the receive loop is left (or run() returned an error) and no
\* task stays blocked.
C3_Terminates ==
  <>(runPc \in {"done", "error"} /\ \A p \in Tasks : status[p] = "none" \/ Ended(p))

\* C3 witness: a task is suspended in send() on a full channel while run() is
\* still scanning, so nothing is being received.
C3_Witness ==
  /\ runPc = "scan"
  /\ Len(chan) = Capacity
  /\ \E p \in Tasks : status[p] = "sending"

\* C4: the step that leaves the receive loop is taken only when run()'s sender
\* and every task's sender clone are gone and the channel is empty.
C4_LoopEndsClosedAndEmpty ==
  [][(runPc = "recv" /\ runPc' # "recv") =>
       /\ sender = "dropped"
       /\ \A p \in Tasks : ~HoldsSender(p)
       /\ chan = <<>>]_vars

\* C4 witness: the loop has just ended after two tasks sent six events.
C4_Witness ==
  /\ runPc = "report"
  /\ \A p \in Tasks : status[p] = "ok"
  /\ SumOver(received, Addresses) = 6

\* C5: in a file, the line read last went to the match exactly when an empty
\* line came strictly before it: the lines up to and including the first
\* empty line are consumed by push (push returned true), every later line is
\* a body line, push returned false for it, and done was true before it.
C5_HeaderThenBody ==
  \A p \in Tasks :
    lineNo[p] > 0 =>
      /\ last[p].body <=> (blankAt[p] # 0 /\ blankAt[p] < lineNo[p])
      /\ last[p].body <=> ~last[p].ret
      /\ last[p].body => last[p].doneBefore
      /\ status[p] = "sending" => last[p].body

\* C5 witness: a header line, the empty line, then a line that is the first
\* one push returned false for and that went to the match.
C5_Witness ==
  \E p \in Tasks :
    /\ lineNo[p] = 3
    /\ blankAt[p] = 2
    /\ last[p].body
    /\ status[p] = "sending"

\* C6: once a task has failed to open or to read its file, the run still comes
\* to its end with Ok, every task has ended without a delivery error, and
\* every event the tasks sent is counted.
C6_IoFailureIsolated ==
  (\E p \in Tasks : openFailed[p] \/ readFailed[p]) ~>
    ( /\ runPc = "done"
      /\ result = "Ok"
      /\ \A q \in Tasks : status[q] \in {"none", "ok", "io_error"}
      /\ \A a \in Addresses : CountFor(a) = emitted[a] )

\* C6 witness: a finished run in which one task failed to open its file and
\* another sent three events, all counted.
C6_Witness ==
  /\ runPc = "done"
  /\ result = "Ok"
  /\ \E p, q \in Tasks :
       /\ status[p] = "io_error"
       /\ status[q] = "ok"
       /\ lineNo[q] = 4
  /\ SumOver(mappings, DOMAIN mappings) = 3

\* C7: a task whose open or whose read of a line failed does not end with Ok.
C7_IoFailureIsErr ==
  \A p \in Tasks : (openFailed[p] \/ readFailed[p]) => status[p] # "ok"

\* C8: after the scan, every non-directory entry of the enumeration has got
\* exactly one task and every directory none.
C8_EveryFileSpawnedOnce ==
  runPc \in {"recv", "report", "done"} =>
    \A i \in 1..Len(listing) :
      /\ listing[i] = "file" => spawns[i] = 1
      /\ listing[i] = "dir" => spawns[i] = 0

\* Whether pat occurs in s.
HasSub(s, pat) ==
  \E k \in 1..(Len(s) - Len(pat) + 1) : SubSeq(s, k, k + Len(pat) - 1) = pat

\* How often the one-character string ch occurs in s.
CountOf(s, ch) == Cardinality({k \in 1..Len(s) : SubSeq(s, k, k) = ch})

StartsWith(s, pre) == Len(s) >= Len(pre) /\ SubSeq(s, 1, Len(pre)) = pre

\* s without its first n characters.
Rest(s, n) == SubSeq(s, n + 1, Len(s))

\* s up to its first occurrence of the one-character string ch (all of s
\* when there is none).
Before(s, ch) ==
  IF HasSub(s, ch)
    THEN LET k == CHOOSE i \in 1..Len(s) :
                    /\ SubSeq(s, i, i) = ch
                    /\ ~HasSub(SubSeq(s, 1, i - 1), ch)
         IN SubSeq(s, 1, k - 1)
    ELSE s

\* The recognized shape, character by character: the marker, "] ", then a
\* descriptor without "] " that holds seven spaces, starts with "from " and
\* has "to " right after the space that ends the peer.
Recognized(line) ==
  /\ StartsWith(line, REMOTE_ACCESS_PREFIX \o LOG_LINE_DELIM)
  /\ LET d == Rest(line, Len(REMOTE_ACCESS_PREFIX) + Len(LOG_LINE_DELIM))
     IN /\ ~HasSub(d, LOG_LINE_DELIM)
        /\ CountOf(d, " ") = 7
        /\ StartsWith(d, "from ")
        /\ LET after == Rest(d, 5)
           IN StartsWith(Rest(after, Len(Before(after, " "))), " to ")

\* The peer token of a recognized line.
PeerOf(line) ==
  Before(Rest(line, Len(REMOTE_ACCESS_PREFIX) + Len(LOG_LINE_DELIM) + 5), " ")

\* C9: a body line sends one event exactly when it has the recognized shape
\* (marker, "] ", 8 tokens, "from" first, "to" third), and no event otherwise.
C9_EventIffShape ==
  outcome.arm # "none" =>
    /\ Recognized(inLine) => Len(outcome.events) = 1 /\ outcome.arm = "event"
    /\ ~Recognized(inLine) => outcome.events = <<>> /\ outcome.arm # "event"

\* C9 witness: a line of the shape with empty last tokens was matched and
\* sent its event.
C9_Witness ==
  /\ inLine = REMOTE_ACCESS_PREFIX \o "] from 10.0.0.9 to     "
  /\ outcome.arm = "event"
  /\ outcome.events = <<"10.0.0.9">>

\* C10: the address of the event of a recognized line is the peer token up to
\* its first ":", or the whole peer token when it has none.
C10_AddressBeforeColon ==
  outcome.arm = "event" => outcome.events = <<Before(PeerOf(inLine), ":")>>

\* C10 witness: a peer with two ":" gave the part before the first.
C10_Witness ==
  /\ outcome.arm = "event"
  /\ PeerOf(inLine) = "a:b:c"
  /\ outcome.events = <<"a">>

\* The number of the first empty line of ls, or 0.
FirstBlank(ls) ==
  IF \E i \in 1..Len(ls) : ls[i] = ""
    THEN CHOOSE i \in 1..Len(ls) : ls[i] = "" /\ \A j \in 1..(i - 1) : ls[j] # ""
    ELSE 0

\* Where pat first occurs in s (pat occurs in s).
FirstAt(s, pat) ==
  CHOOSE k \in 1..Len(s) :
    /\ SubSeq(s, k, k + Len(pat) - 1) = pat
    /\ ~HasSub(SubSeq(s, 1, k + Len(pat) - 2), pat)

\* What C11 says of a state: push returned true up to and including the first
\* empty line and false after it, and done tells whether it has come.
ReturnsFollowBlank ==
  LET k == FirstBlank(pushed)
  IN /\ Len(rets) = Len(pushed)
     /\ \A i \in 1..Len(rets) : rets[i] <=> (k = 0 \/ i <= k)
     /\ hd.done <=> k # 0
     /\ k # 0 => Cardinality({i \in 1..Len(rets) : rets[i]}) = (k - 1) + 1

\* C11: on a fresh head, push returns true for every line up to and including
\* the first empty line and false after it (header lines plus one true
\* returns); done is true exactly from the first empty line on, and a push on
\* a head that is done changes neither done nor the header map.
C11_PushReturns ==
  [][/\ ReturnsFollowBlank
     /\ ReturnsFollowBlank'
     /\ hd.done => hd' = hd]_vars

\* C11 witness: a header line, the empty line, then two more pushes that were
\* refused and left the map as it was.
C11_Witness ==
  /\ pushed = <<"Subject: x", "", "Subject: y", "">>
  /\ rets = <<TRUE, TRUE, FALSE, FALSE>>
  /\ hd.done
  /\ DOMAIN hd.headers = {"Subject"}
  /\ hd.headers["Subject"] = "x"

\* C12: the line pushed last before done is stored under the text before its
\* first ": " with the text after that ": " as the value; a line without ": "
\* is stored as the empty key with the empty value.
C12_SplitOnFirstDelim ==
  (Len(pushed) > 0 /\ FirstBlank(pushed) = 0) =>
    LET l == pushed[Len(pushed)]
    IN IF HasSub(l, ": ")
         THEN LET k == FirstAt(l, ": ")
              IN /\ SubSeq(l, 1, k - 1) \in DOMAIN hd.headers
                 /\ hd.headers[SubSeq(l, 1, k - 1)] = SubSeq(l, k + 2, Len(l))
         ELSE /\ "" \in DOMAIN hd.headers
              /\ hd.headers[""] = ""

\* The address a file line sends when it is a body line, by its characters:
\* <<address>> for a line of the recognized shape, <<>> otherwise.
ShapeEvents == [l \in FileLines |->
                  IF Recognized(l) THEN <<Before(PeerOf(l), ":")>> ELSE <<>>]

\* Whether a file line carries the marker and "] " but not the 8-token shape.
Malformed == [l \in FileLines |->
                StartsWith(l, REMOTE_ACCESS_PREFIX \o LOG_LINE_DELIM) /\ ~Recognized(l)]

\* The events for address a in the first n lines ls: the recognized lines
\* after the first empty line.
EventsIn(ls, n, a) ==
  LET k == FirstBlank(ls)
  IN IF k = 0 THEN 0
     ELSE Cardinality({i \in (k + 1)..n : ShapeEvents[ls[i]] = <<a>>})

\* The entries the scan gives a task: the files before the first Err.
Parsed(p) ==
  /\ p <= Len(listing)
  /\ listing[p] = "file"
  /\ \A j \in 1..p : listing[j] # "err"

RECURSIVE SumTasks(_, _)
SumTasks(F(_), S) ==
  IF S = {} THEN 0
  ELSE LET x == CHOOSE y \in S : TRUE IN F(x) + SumTasks(F, S \ {x})

\* The count of address a that the directory determines: its recognized body
\* lines in all the files the scan reaches.
DirCount(a) ==
  LET F(p) == IF Parsed(p) THEN EventsIn(files[p].lines, Len(files[p].lines), a)
              ELSE 0
  IN SumTasks(F, Tasks)

\* The events for a that the lines read so far determine.
ReadCount(a) ==
  LET F(p) == EventsIn(files[p].lines, lineNo[p], a)
  IN SumTasks(F, Tasks)

\* C13: the final table is a function of the directory alone: whatever the
\* interleaving, every address ends with the count its lines determine, so
\* two runs on the same directory end with the same table.
C13_TableDeterminedByDirectory ==
  runPc \in {"report", "done"} =>
    /\ \A a \in Addresses : CountFor(a) = DirCount(a)
    /\ DOMAIN mappings = {a \in Addresses : DirCount(a) > 0}

\* C13 witness: two files with three events each were parsed side by side and
\* the run ended with four and two.
C13_Witness ==
  /\ runPc = "done"
  /\ \A p \in Tasks : Parsed(p) /\ Len(files[p].lines) = 4 /\ files[p].lines[1] = ""
                        /\ files[p].lines[2] = AccessLine("10.0.0.5:4444")
  /\ CountFor("10.0.0.5") = 4
  /\ CountFor("10.0.0.9") = 2

\* Whether the file of p holds a malformed access line after its empty line.
HasMalformedBody(p) ==
  LET ls == files[p].lines
  IN \E i \in 1..Len(ls) : FirstBlank(ls) # 0 /\ i > FirstBlank(ls) /\ Malformed[ls[i]]

\* C18: a malformed access line sends nothing and does not end the task: the
\* events sent are at every moment those of the recognized body lines read so
\* far, and a task whose file holds a malformed body line ends only with Ok
\* and only after all the lines of the file.
C18_MalformedLineSkipped ==
  /\ \A a \in Addresses : emitted[a] = ReadCount(a)
  /\ \A p \in Tasks :
       HasMalformedBody(p) =>
         /\ status[p] \notin {"io_error", "send_error"}
         /\ status[p] = "ok" => lineNo[p] = Len(files[p].lines)

\* C18 witness: the file with a malformed line between two recognized ones
\* was read to its end and both events were counted.
C18_Witness ==
  /\ runPc = "done"
  /\ listing = <<"file">>
  /\ HasMalformedBody(1)
  /\ status[1] = "ok"
  /\ lineNo[1] = 4
  /\ CountFor("10.0.0.9") = 2
  /\ "10.0.0.5" \notin DOMAIN mappings

\* The lines of task p that came after its first empty line.
BodyRead(p) == IF blankAt[p] = 0 THEN 0 ELSE lineNo[p] - blankAt[p]

\* C19: as long as a file has shown no empty line its task sends nothing and,
\* once opened, ends only with Ok; all events together are no more than the
\* lines read after the first empty lines.
C19_HeaderLinesNeverCounted ==
  /\ \A p \in Tasks :
       blankAt[p] = 0 =>
         /\ status[p] \notin {"sending", "send_error"}
         /\ pending[p] = ""
         /\ (Ended(p) /\ ~openFailed[p]) => status[p] = "ok"
  /\ LET F(p) == BodyRead(p)
     IN SumOver(emitted, Addresses) <= SumTasks(F, Tasks)

\* C19 witness: a file of four access-shaped lines and no empty line ended
\* with Ok at its end, and the run ended with an empty table.
C19_Witness ==
  /\ runPc = "done"
  /\ mappings = <<>>
  /\ \E p \in Tasks :
       /\ status[p] = "ok"
       /\ ~readFailed[p]
       /\ lineNo[p] = 4
       /\ blankAt[p] = 0
       /\ DOMAIN head[p].headers = {""}

\* C14: the report prints exactly the addresses counted 101 times or more
\* and hides the others (100 is hidden), and hidden plus printed is the
\* total, the number of addresses in the table.
C14_ReportThreshold ==
  runPc = "done" =>
    /\ \A a \in Addresses :
         a \in printed <=> (a \in DOMAIN mappings /\ mappings[a] >= 101)
    /\ hidden = Cardinality({a \in DOMAIN mappings : mappings[a] <= 100})
    /\ hidden + Cardinality(printed) = total
    /\ total = Cardinality(DOMAIN mappings)

\* C14 witness: one address counted 100 times was hidden and one counted 101
\* times was printed.
C14_Witness ==
  /\ runPc = "done"
  /\ DOMAIN mappings = {"10.0.0.5", "10.0.0.9"}
  /\ mappings["10.0.0.5"] = 100
  /\ mappings["10.0.0.9"] = 101
  /\ printed = {"10.0.0.9"}
  /\ hidden = 1
  /\ total = 2

\* C15: the channel never holds more than 4 events; while it holds 4 the event
\* of a sending task does not enter (the channel only loses its oldest event
\* to the receiver), and a task that is sending reads no line.
C15_Backpressure ==
  [][/\ Len(chan) <= 4
     /\ Len(chan') <= 4
     /\ \A p \in Tasks :
          status[p] = "sending" =>
            /\ lineNo'[p] = lineNo[p]
            /\ head'[p] = head[p]
            /\ Len(chan) = 4 =>
                 /\ status'[p] = "sending"
                 /\ pending'[p] = pending[p]
                 /\ chan' \in {chan, Tail(chan)}]_vars

\* C15 witness: the receive loop has taken an event, the channel is full again
\* and a task is still waiting to send.
C15_Witness ==
  /\ runPc = "recv"
  /\ Len(chan) = 4
  /\ SumOver(received, Addresses) >= 1
  /\ \E p \in Tasks : status[p] = "sending" /\ pending[p] # ""

\* C16: a send that finds the channel closed ends its task at once with the
\* delivery error, which is not the I/O error: the task reads no further line
\* and sends nothing from then on, and no other task is touched by it.
C16_SendFailureEndsTask ==
  [][\A p \in Tasks :
       /\ (status[p] = "sending" /\ receiver # "open" /\ status'[p] # status[p]) =>
            /\ status'[p] = "send_error"
            /\ status'[p] # "io_error"
            /\ lineNo'[p] = lineNo[p]
            /\ chan' = chan
            /\ emitted' = emitted
            /\ \A q \in Tasks \ {p} :
                 status'[q] = status[q] /\ lineNo'[q] = lineNo[q]
       /\ status[p] = "send_error" =>
            /\ status'[p] = "send_error"
            /\ lineNo'[p] = lineNo[p]
            /\ head'[p] = head[p]
            /\ pending'[p] = ""]_vars

\* C16 witness: one task ended with the delivery error on its second line
\* while another read its whole file.
C16_Witness ==
  /\ receiver = "dropped"
  /\ \E p \in Tasks :
       /\ status[p] = "send_error"
       /\ lineNo[p] = 2
       /\ \E q \in Tasks \ {p} : status[q] = "ok" /\ lineNo[q] = MaxLines

\* C17: without a usable input directory run() ends with the error and
\* nothing else ever happens: no channel, no entry, no task, no report.
C17_ConfigErrorBeforeAnything ==
  inputDir # "dir" =>
    /\ runPc \in {"start", "error"}
    /\ result # "Ok"
    /\ sender = "none"
    /\ receiver = "none"
    /\ chan = <<>>
    /\ scanned = 0
    /\ \A p \in Tasks : status[p] = "none" /\ spawns[p] = 0
    /\ mappings = <<>>
    /\ total = 0
    /\ hidden = 0
    /\ printed = {}

\* C17 witness: run() has returned the error for a path that is no directory.
C17_Witness ==
  /\ inputDir = "notdir"
  /\ runPc = "error"
  /\ result = "Err"

\* C20: while any task holds a sender clone the receiver is open, and no task
\* ever ends with the delivery error.
C20_ReceiverOutlivesSenders ==
  inputDir = "dir" =>
    /\ (\E p \in Tasks : HoldsSender(p)) => receiver = "open"
    /\ \A p \in Tasks : status[p] # "send_error"

\* C20 witness: run() has dropped its own sender and waits on the empty
\* channel while a task that has sent an event still reads.
C20_Witness ==
  /\ runPc = "recv"
  /\ sender = "dropped"
  /\ chan = <<>>
  /\ SumOver(received, Addresses) >= 1
  /\ \E p \in Tasks : status[p] = "reading" /\ lineNo[p] >= 2

====
